---- MODULE Spec2Model ----
(***************************************************************************)
(* Request-scoped database handle of drizzle-orm-cloudflare/node-postgres. *)
(*                                                                         *)
(* One process-wide AsyncLocalStorage holds, per asynchronous execution,   *)
(* a reference to a DrizzleContext {client?, factory?}.  db.run() builds a *)
(* context from its first argument and runs the callback under it; the     *)
(* proxy client resolves the context on every query and lazily creates the *)
(* client from the factory (pkgs/node-postgres/src/driver.ts).             *)
(*                                                                         *)
(* An execution ("task") is one asynchronous chain: a request handler, the *)
(* callback of a run(), or a branch a callback started (a promise it did   *)
(* or did not await, a timer).  JavaScript is single threaded: each action *)
(* below is one synchronous stretch of code, and actions interleave at     *)
(* awaits only.                                                            *)
(***************************************************************************)
EXTENDS Integers, Sequences, FiniteSets, TLC

\* ---------------------------------------------------------------- bounds
MaxTasks   == 3
MaxScopes  == 2
MaxQueries == 3

Tasks == 1..MaxTasks

\* ------------------------------------------------------- JavaScript values
\* Every value has the same shape so that values can be compared:
\*   kind  : the result of typeof, with "client" for an object with query()
\*   conn  : what the value names (descriptor text, the database a client
\*           is connected to, the name of a function)
\*   owner : who constructed a client ("caller", "run", or a factory's name)
\*   n     : object identity of a constructed client (0 for caller's values)
Descriptors == {"d1", "d2"}
Factories   == {"f1"}
Texts       == {"q1", "q2"}

Undefined == [kind |-> "undefined", conn |-> "", owner |-> "", n |-> 0]

Str(d) == [kind |-> "string", conn |-> d, owner |-> "", n |-> 0]

Fn(f) == [kind |-> "function", conn |-> f, owner |-> "", n |-> 0]

\* A client the caller constructed itself from descriptor d before run().
CallerClient(d) == [kind |-> "client", conn |-> d, owner |-> "caller", n |-> 0]

Inputs == {Str(d) : d \in Descriptors} \cup {Fn(f) : f \in Factories}
            \cup {CallerClient(d) : d \in Descriptors} \cup {Undefined}

TypeOf(v) == IF v.kind = "client" THEN "object" ELSE v.kind

\* JavaScript truthiness of the values above (descriptors are non-empty).
Truthy(v) == v.kind # "undefined"

\* new pg.Pool({ connectionString: d }) : a fresh pool, n-th object made.
NewPool(d, n) == [kind |-> "client", conn |-> d, owner |-> "run", n |-> n]

\* factory() returning normally: a fresh client made by the caller's function.
FactoryResult(f, n) == [kind |-> "client", conn |-> f.conn, owner |-> f.conn, n |-> n]

\* ------------------------------------------------------------ DrizzleContext
ContextOfPool(c) == [client |-> c, factory |-> Undefined]

ContextOfFactory(f) == [client |-> Undefined, factory |-> f]

ContextOfClient(c) == [client |-> c, factory |-> Undefined]

\* Variant: no branch for strings.
NormalizeNoString(input, n) ==
    IF TypeOf(input) = "function" THEN ContextOfFactory(input)
    ELSE ContextOfClient(input)

\* Variant: no branch for functions.
NormalizeNoFunction(input, n) ==
    IF TypeOf(input) = "string" THEN ContextOfPool(NewPool(input.conn, n))
    ELSE ContextOfClient(input)

\* Variant: the factory is called when the context is built.
NormalizeEager(input, n) ==
    IF TypeOf(input) = "string" THEN ContextOfPool(NewPool(input.conn, n))
    ELSE IF TypeOf(input) = "function" THEN ContextOfClient(FactoryResult(input, n))
    ELSE ContextOfClient(input)

\* Variant: one pool per descriptor, kept and reused.
NormalizePooled(input, n) ==
    IF TypeOf(input) = "string" THEN ContextOfPool(NewPool(input.conn, 0))
    ELSE IF TypeOf(input) = "function" THEN ContextOfFactory(input)
    ELSE ContextOfClient(input)

\* The if / else-if / else of db.run that builds the context.
Normalize(input, n) ==
    IF TypeOf(input) = "string" THEN ContextOfPool(NewPool(input.conn, n))
    ELSE IF TypeOf(input) = "function" THEN ContextOfFactory(input)
    ELSE ContextOfClient(input)

\* Number of objects db.run constructs for this input.
PoolsMadeBy(input) == IF TypeOf(input) = "string" THEN 1 ELSE 0

\* ------------------------------------------------- external collaborators
\* What client.query(text, values) produces once the database has answered;
\* fail is the database's choice.  The answer depends on the database the
\* client is connected to, not on who constructed the client.
DbResult(client, text, fail) ==
    [ok |-> ~fail, conn |-> client.conn, text |-> text]

NoResult == [ok |-> FALSE, conn |-> "", text |-> ""]

\* Outcome of a promise.
Pending == [state |-> "pending", val |-> ""]

Outcomes == {[state |-> "resolved", val |-> "v1"],
             [state |-> "rejected", val |-> "e1"]}

\* ------------------------------------------------------------------ state
VARIABLES
    tasks,      \* the executions: status, current store, position
    contexts,   \* the DrizzleContext objects built so far, by scope id
    scopes,     \* history of each run(): input, caller, callback, outcomes
    made,       \* number of clients constructed so far (pools and factory results)
    nq,         \* number of proxy queries issued so far
    last        \* the most recent proxy query event

vars == <<tasks, contexts, scopes, made, nq, last>>

FreeTask == [status |-> "free", store |-> 0, runOf |-> 0, parent |-> 0,
             wait |-> 0, pclient |-> Undefined, ptext |-> ""]

NoEvent == [task |-> 0, rec |-> 0, kind |-> "none", client |-> Undefined,
            text |-> "", invoked |-> 0, late |-> FALSE, inner |-> "none",
            answer |-> NoResult, result |-> NoResult]

ScopeIds == 1..Len(contexts)

\* The next unused execution slot (0 when all are used).
NextTask ==
    IF \E t \in Tasks : tasks[t].status = "free"
    THEN CHOOSE t \in Tasks : /\ tasks[t].status = "free"
                              /\ \A u \in Tasks : tasks[u].status = "free" => t <= u
    ELSE 0

\* Whether the promise of run() r has settled.
Settled(r) == r # 0 /\ scopes[r].state = "settled"

\* Where the most recent run() that execution t called stands: "none" when t
\* has called none.
InnerOf(t) ==
    LET mine == {r \in 1..Len(scopes) : scopes[r].by = t}
    IN  IF mine = {} THEN "none"
        ELSE scopes[CHOOSE r \in mine : \A q \in mine : q <= r].state

\* Execution 1 is the code that runs outside every scope (the event loop
\* delivering requests to the module's handlers); every other execution is
\* started by a run() or by another execution.
Init ==
    /\ tasks = [t \in Tasks |-> IF t = 1 THEN [FreeTask EXCEPT !.status = "running"]
                                         ELSE FreeTask]
    /\ contexts = <<>>
    /\ scopes = <<>>
    /\ made = 0
    /\ nq = 0
    /\ last = NoEvent

\* ------------------------------------------------- AsyncLocalStorage.run
\* asyncLocalStorage.run(context, callback): the callback (and everything it
\* starts) sees context; the caller's own store is what it was before.
\* Variant: an inner run() reuses the store of the scope it is called in.
StoreKeepsOuter(callerStore, r) == IF callerStore # 0 THEN callerStore ELSE r

StoreInCallback(callerStore, r) == r

\* Variant: enterWith(context) instead of run(context, callback).
StoreEntered(callerStore, r) == r

StoreAfterRun(callerStore, r) == callerStore

\* A promise, timer or continuation created by an execution keeps the store
\* that was current when it was created.
InheritStore(parentStore) == parentStore

\* Variant: a continuation resumes in the store of the context set last.
StoreOfLastRun(own, ctxs) == Len(ctxs)

\* The continuation of an await resumes in the store its execution had.
StoreOnResume(own, ctxs) == own

\* Variant: the context kept in one module-level variable, the last one set.
GetStoreLatest(current, ctxs) == Len(ctxs)

\* asyncLocalStorage.getStore(): the store of the calling execution.
GetStore(current, ctxs) == current

\* ----------------------------------------------------- getClientFromContext
\* s is what asyncLocalStorage.getStore() returns (0: undefined); throws is
\* whether the factory, if it is invoked, throws; n names the client a
\* successful factory call constructs.
\* Variant: the client the factory returns is not stored in the context.
GetClientNoMemo(s, ctxs, throws, n) ==
    IF s = 0
    THEN [error |-> "ContextMissing", client |-> Undefined, rec |-> 0,
          contexts |-> ctxs, invoked |-> 0]
    ELSE IF Truthy(ctxs[s].client)
    THEN [error |-> "", client |-> ctxs[s].client, rec |-> s,
          contexts |-> ctxs, invoked |-> 0]
    ELSE IF Truthy(ctxs[s].factory)
    THEN IF throws
         THEN [error |-> "FactoryFailure", client |-> Undefined, rec |-> s,
               contexts |-> ctxs, invoked |-> 1]
         ELSE [error |-> "", client |-> FactoryResult(ctxs[s].factory, n), rec |-> s,
               contexts |-> ctxs, invoked |-> 1]
    ELSE [error |-> "InvariantViolation", client |-> Undefined, rec |-> s,
          contexts |-> ctxs, invoked |-> 0]

\* Variant: a failing factory is dropped from the context.
GetClientPoisoned(s, ctxs, throws, n) ==
    IF s = 0
    THEN [error |-> "ContextMissing", client |-> Undefined, rec |-> 0,
          contexts |-> ctxs, invoked |-> 0]
    ELSE IF Truthy(ctxs[s].client)
    THEN [error |-> "", client |-> ctxs[s].client, rec |-> s,
          contexts |-> ctxs, invoked |-> 0]
    ELSE IF Truthy(ctxs[s].factory)
    THEN IF throws
         THEN [error |-> "FactoryFailure", client |-> Undefined, rec |-> s,
               contexts |-> [ctxs EXCEPT ![s].factory = Undefined], invoked |-> 1]
         ELSE [error |-> "", client |-> FactoryResult(ctxs[s].factory, n), rec |-> s,
               contexts |-> [ctxs EXCEPT ![s].client = FactoryResult(ctxs[s].factory, n)],
               invoked |-> 1]
    ELSE [error |-> "InvariantViolation", client |-> Undefined, rec |-> s,
          contexts |-> ctxs, invoked |-> 0]

\* Variant: the factory is removed from the context once it has produced a client.
GetClientConsumesFactory(s, ctxs, throws, n) ==
    IF s = 0
    THEN [error |-> "ContextMissing", client |-> Undefined, rec |-> 0,
          contexts |-> ctxs, invoked |-> 0]
    ELSE IF Truthy(ctxs[s].client)
    THEN [error |-> "", client |-> ctxs[s].client, rec |-> s,
          contexts |-> ctxs, invoked |-> 0]
    ELSE IF Truthy(ctxs[s].factory)
    THEN IF throws
         THEN [error |-> "FactoryFailure", client |-> Undefined, rec |-> s,
               contexts |-> ctxs, invoked |-> 1]
         ELSE [error |-> "", client |-> FactoryResult(ctxs[s].factory, n), rec |-> s,
               contexts |-> [ctxs EXCEPT ![s].client = FactoryResult(ctxs[s].factory, n),
                                        ![s].factory = Undefined],
               invoked |-> 1]
    ELSE [error |-> "InvariantViolation", client |-> Undefined, rec |-> s,
          contexts |-> ctxs, invoked |-> 0]

\* Variant: the factory is looked at before the client.
GetClientFactoryFirst(s, ctxs, throws, n) ==
    IF s = 0
    THEN [error |-> "ContextMissing", client |-> Undefined, rec |-> 0,
          contexts |-> ctxs, invoked |-> 0]
    ELSE IF Truthy(ctxs[s].factory)
    THEN IF throws
         THEN [error |-> "FactoryFailure", client |-> Undefined, rec |-> s,
               contexts |-> ctxs, invoked |-> 1]
         ELSE [error |-> "", client |-> FactoryResult(ctxs[s].factory, n), rec |-> s,
               contexts |-> [ctxs EXCEPT ![s].client = FactoryResult(ctxs[s].factory, n)],
               invoked |-> 1]
    ELSE IF Truthy(ctxs[s].client)
    THEN [error |-> "", client |-> ctxs[s].client, rec |-> s,
          contexts |-> ctxs, invoked |-> 0]
    ELSE [error |-> "InvariantViolation", client |-> Undefined, rec |-> s,
          contexts |-> ctxs, invoked |-> 0]

\* Variant: one error for a missing context and for an empty one.
GetClientOneError(s, ctxs, throws, n) ==
    IF s = 0
    THEN [error |-> "ContextMissing", client |-> Undefined, rec |-> 0,
          contexts |-> ctxs, invoked |-> 0]
    ELSE IF Truthy(ctxs[s].client)
    THEN [error |-> "", client |-> ctxs[s].client, rec |-> s,
          contexts |-> ctxs, invoked |-> 0]
    ELSE IF Truthy(ctxs[s].factory)
    THEN IF throws
         THEN [error |-> "FactoryFailure", client |-> Undefined, rec |-> s,
               contexts |-> ctxs, invoked |-> 1]
         ELSE [error |-> "", client |-> FactoryResult(ctxs[s].factory, n), rec |-> s,
               contexts |-> [ctxs EXCEPT ![s].client = FactoryResult(ctxs[s].factory, n)],
               invoked |-> 1]
    ELSE [error |-> "ContextMissing", client |-> Undefined, rec |-> s,
          contexts |-> ctxs, invoked |-> 0]

\* Variant: the client is memoized for the factory, in every context that holds it.
GetClientSharedMemo(s, ctxs, throws, n) ==
    IF s = 0
    THEN [error |-> "ContextMissing", client |-> Undefined, rec |-> 0,
          contexts |-> ctxs, invoked |-> 0]
    ELSE IF Truthy(ctxs[s].client)
    THEN [error |-> "", client |-> ctxs[s].client, rec |-> s,
          contexts |-> ctxs, invoked |-> 0]
    ELSE IF Truthy(ctxs[s].factory)
    THEN IF throws
         THEN [error |-> "FactoryFailure", client |-> Undefined, rec |-> s,
               contexts |-> ctxs, invoked |-> 1]
         ELSE [error |-> "", client |-> FactoryResult(ctxs[s].factory, n), rec |-> s,
               contexts |-> [r \in 1..Len(ctxs) |->
                    IF ctxs[r].factory = ctxs[s].factory /\ ~Truthy(ctxs[r].client)
                    THEN [ctxs[r] EXCEPT !.client = FactoryResult(ctxs[s].factory, n)]
                    ELSE ctxs[r]],
               invoked |-> 1]
    ELSE [error |-> "InvariantViolation", client |-> Undefined, rec |-> s,
          contexts |-> ctxs, invoked |-> 0]

GetClientFromContext(s, ctxs, throws, n) ==
    IF s = 0
    THEN [error |-> "ContextMissing", client |-> Undefined, rec |-> 0,
          contexts |-> ctxs, invoked |-> 0]
    ELSE IF Truthy(ctxs[s].client)
    THEN [error |-> "", client |-> ctxs[s].client, rec |-> s,
          contexts |-> ctxs, invoked |-> 0]
    ELSE IF Truthy(ctxs[s].factory)
    THEN IF throws
         THEN [error |-> "FactoryFailure", client |-> Undefined, rec |-> s,
               contexts |-> ctxs, invoked |-> 1]
         ELSE [error |-> "", client |-> FactoryResult(ctxs[s].factory, n), rec |-> s,
               contexts |-> [ctxs EXCEPT ![s].client = FactoryResult(ctxs[s].factory, n)],
               invoked |-> 1]
    ELSE [error |-> "InvariantViolation", client |-> Undefined, rec |-> s,
          contexts |-> ctxs, invoked |-> 0]

\* Variant: the values are not passed on.
ClientQueryCallNoValues(client, text) == [client |-> client, text |-> ""]

\* client.query(queryTextOrConfig, values): the call the proxy makes; text
\* stands for the query text together with its values.
ClientQueryCall(client, text) == [client |-> client, text |-> text]

\* Variant: a failure of the client is caught and an empty success returned.
ProxyReturnSuppressed(answer) == [answer EXCEPT !.ok = TRUE]

\* return client.query(...): the proxy hands the client's promise to its
\* caller as it is.
ProxyReturn(answer) == answer

\* db.run's promise adopts the promise asyncLocalStorage.run returned, which
\* is the callback's own promise.
\* Variant: run() catches the callback's failure and throws its own.
AdoptWrapped(outcome) ==
    IF outcome.state = "rejected" THEN [outcome EXCEPT !.val = "wrapped"] ELSE outcome

Adopt(outcome) == outcome

\* ---------------------------------------------------------------- actions
\* Execution t calls db.run(input, callback); awaited says whether t awaits
\* the returned promise before it goes on.
Run(t, input, awaited) ==
    LET r == Len(contexts) + 1
        c == NextTask
    IN  /\ tasks[t].status = "running"
        /\ r <= MaxScopes
        /\ c # 0
        /\ contexts' = Append(contexts, Normalize(input, made + 1))
        /\ made' = made + PoolsMadeBy(input)
        /\ tasks' = [tasks EXCEPT
                ![c] = [FreeTask EXCEPT !.status = "running",
                                        !.store = StoreInCallback(tasks[t].store, r),
                                        !.runOf = r,
                                        !.parent = t],
                ![t] = [tasks[t] EXCEPT !.status = IF awaited THEN "awaitRun" ELSE "running",
                                        !.wait = IF awaited THEN r ELSE 0,
                                        !.store = StoreAfterRun(tasks[t].store, r)]]
        /\ scopes' = Append(scopes, [input |-> input, by |-> t, cb |-> c,
                                     state |-> "active",
                                     cbOutcome |-> Pending, runOutcome |-> Pending,
                                     madeAtRun |-> made,
                                     factoryCalls |-> 0, factoryThrows |-> 0,
                                     queries |-> 0])
        /\ UNCHANGED <<nq, last>>

\* Execution t starts a branch that runs on its own (a promise it may join
\* later or never, a timer).
Spawn(t) ==
    LET c == NextTask
    IN  /\ tasks[t].status = "running"
        /\ c # 0
        /\ tasks' = [tasks EXCEPT
                ![c] = [FreeTask EXCEPT !.status = "running",
                                        !.store = InheritStore(tasks[t].store),
                                        !.parent = t]]
        /\ UNCHANGED <<contexts, scopes, made, nq, last>>

\* Execution t calls proxyClient.query(text): the client is resolved from the
\* store and the query is handed to it.  An error of getClientFromContext is
\* thrown to t at once; otherwise t waits for the database.
Query(t, text, throws) ==
    LET res == GetClientFromContext(GetStore(tasks[t].store, contexts), contexts,
                                    throws, made + 1)
        ev  == [task |-> t, rec |-> res.rec, kind |-> "", client |-> res.client,
                text |-> text, invoked |-> res.invoked, late |-> Settled(res.rec),
                inner |-> InnerOf(t), answer |-> NoResult, result |-> NoResult]
        threw == res.error = "FactoryFailure"
    IN  /\ tasks[t].status = "running"
        /\ nq < MaxQueries
        /\ nq' = nq + 1
        /\ contexts' = res.contexts
        /\ made' = IF res.invoked = 1 /\ ~threw THEN made + 1 ELSE made
        /\ scopes' = IF res.rec = 0 THEN scopes
                     ELSE [scopes EXCEPT
                        ![res.rec].queries = @ + 1,
                        ![res.rec].factoryCalls = @ + res.invoked,
                        ![res.rec].factoryThrows = IF threw THEN @ + 1 ELSE @]
        /\ IF res.error # ""
           THEN /\ last' = [ev EXCEPT !.kind = res.error]
                /\ UNCHANGED tasks
           ELSE IF res.client.kind # "client"
           THEN /\ last' = [ev EXCEPT !.kind = "TypeError"]
                /\ UNCHANGED tasks
           ELSE /\ last' = [ev EXCEPT !.kind = "delegated"]
                /\ tasks' = [tasks EXCEPT ![t].status = "awaitQuery",
                                          ![t].pclient = ClientQueryCall(res.client, text).client,
                                          ![t].ptext = ClientQueryCall(res.client, text).text]

\* The database answers the query execution t is waiting for; t resumes in
\* the store it had.
QueryReturn(t, fail) ==
    /\ tasks[t].status = "awaitQuery"
    /\ last' = [task |-> t, rec |-> tasks[t].store, kind |-> "returned",
                client |-> tasks[t].pclient, text |-> tasks[t].ptext,
                invoked |-> 0, late |-> Settled(tasks[t].store), inner |-> InnerOf(t),
                answer |-> DbResult(tasks[t].pclient, tasks[t].ptext, fail),
                result |-> ProxyReturn(DbResult(tasks[t].pclient, tasks[t].ptext, fail))]
    /\ tasks' = [tasks EXCEPT ![t].status = "running",
                              ![t].store = StoreOnResume(tasks[t].store, contexts),
                              ![t].pclient = Undefined,
                              ![t].ptext = ""]
    /\ UNCHANGED <<contexts, scopes, made, nq>>

\* The callback of a run() settles: it resolves with a value or fails.
CallbackSettle(t, outcome) ==
    /\ tasks[t].status = "running"
    /\ tasks[t].runOf # 0
    /\ tasks' = [tasks EXCEPT ![t].status = "done"]
    /\ scopes' = [scopes EXCEPT ![tasks[t].runOf].state = "cbSettled",
                                ![tasks[t].runOf].cbOutcome = outcome]
    /\ UNCHANGED <<contexts, made, nq, last>>

\* The promise db.run returned settles, after the callback's promise has.
RunSettle(r) ==
    /\ r \in 1..Len(scopes)
    /\ scopes[r].state = "cbSettled"
    /\ scopes' = [scopes EXCEPT ![r].state = "settled",
                                ![r].runOutcome = Adopt(scopes[r].cbOutcome)]
    /\ UNCHANGED <<tasks, contexts, made, nq, last>>

\* An execution that awaited db.run goes on once that promise has settled.
Resume(t) ==
    /\ tasks[t].status = "awaitRun"
    /\ scopes[tasks[t].wait].state = "settled"
    /\ tasks' = [tasks EXCEPT ![t].status = "running", ![t].wait = 0,
                              ![t].store = StoreOnResume(tasks[t].store, contexts)]
    /\ UNCHANGED <<contexts, scopes, made, nq, last>>

Next ==
    \/ \E t \in Tasks, input \in Inputs, awaited \in BOOLEAN : Run(t, input, awaited)
    \/ \E t \in Tasks : Spawn(t)
    \/ \E t \in Tasks, text \in Texts, throws \in BOOLEAN : Query(t, text, throws)
    \/ \E t \in Tasks, fail \in BOOLEAN : QueryReturn(t, fail)
    \/ \E t \in Tasks, outcome \in Outcomes : CallbackSettle(t, outcome)
    \/ \E r \in 1..MaxScopes : RunSettle(r)
    \/ \E t \in Tasks : Resume(t)

Spec == Init /\ [][Next]_vars

\* ------------------------------------------------------------ properties
\* The scope an execution belongs to by construction: the scope of the
\* innermost run() whose callback started it (0: none).
RECURSIVE Own(_)
Own(t) ==
    IF t = 0 THEN 0
    ELSE IF tasks[t].runOf # 0 THEN tasks[t].runOf
    ELSE Own(tasks[t].parent)

\* The last event is a call of proxyClient.query (not a database answer).
Issued == last.kind \notin {"none", "returned"}

\* C1 Isolation: a query issued in a callback (or in anything it started) is
\* delegated to the client of that callback's own scope record, and to no
\* client of another run() that was given a different client or factory.
Isolation ==
    last.kind = "delegated" =>
        LET own == Own(last.task)
        IN  /\ own # 0
            /\ last.rec = own
            /\ last.client = contexts[own].client
            /\ \A r \in ScopeIds :
                  (r # own /\ scopes[r].input # scopes[own].input)
                      => /\ last.client # contexts[r].client
                         /\ last.client # scopes[r].input

\* Two sibling run() calls with different inputs are both active, each has a
\* client, and a query of one of them has just been delegated.
IsolationWitness ==
    /\ last.kind = "delegated"
    /\ \E r \in ScopeIds :
          /\ r # last.rec
          /\ scopes[r].by = scopes[last.rec].by
          /\ scopes[r].input # scopes[last.rec].input
          /\ scopes[r].state = "active"
          /\ scopes[last.rec].state = "active"
          /\ Truthy(contexts[r].client)
          /\ tasks[scopes[r].cb].status = "awaitQuery"

\* C2 ContextMissing: a query from an execution with no enclosing run() fails
\* with ContextMissing, is delegated to no client and invokes no factory.
NoScopeFails ==
    (Issued /\ Own(last.task) = 0) =>
        /\ last.kind = "ContextMissing"
        /\ last.rec = 0
        /\ last.client = Undefined
        /\ last.invoked = 0

\* Such a query failed after one run() had settled and while another one,
\* which holds a client, is active.
NoScopeFailsWitness ==
    /\ last.kind = "ContextMissing"
    /\ Own(last.task) = 0
    /\ \E r, q \in ScopeIds :
          /\ scopes[r].state = "settled"
          /\ scopes[q].state = "active"
          /\ Truthy(contexts[q].client)

\* C3 Exactly one factory call: in a scope built from a factory that does not
\* fail, the factory has been invoked once as soon as one query was issued and
\* never more, and every query is delegated to the one client it produced.
FactoryOnce ==
    \A r \in ScopeIds :
        (scopes[r].input.kind = "function" /\ scopes[r].factoryThrows = 0) =>
            /\ scopes[r].factoryCalls <= 1
            /\ scopes[r].queries >= 1 => scopes[r].factoryCalls = 1
            /\ (Issued /\ last.rec = r) =>
                  /\ last.kind = "delegated"
                  /\ last.client = contexts[r].client
                  /\ last.client = FactoryResult(scopes[r].input, last.client.n)

\* A branch of the callback queried while the callback's own query was in
\* flight, and was served by the client the first query had created.
FactoryOnceWitness ==
    /\ last.kind = "delegated"
    /\ last.invoked = 0
    /\ last.rec # 0
    /\ scopes[last.rec].input.kind = "function"
    /\ scopes[last.rec].factoryThrows = 0
    /\ scopes[last.rec].queries >= 2
    /\ last.task # scopes[last.rec].cb
    /\ tasks[scopes[last.rec].cb].status = "awaitQuery"

\* C4 Factory failure: a query in which the factory fails throws that failure
\* to its caller after one invocation and leaves the record as it was, with
\* no cached client; a later query that finds the record like that invokes the
\* factory again, and caches the client when the factory succeeds.
FactoryFailureStep ==
    nq' # nq =>
        /\ last'.kind = "FactoryFailure" =>
              /\ last'.invoked = 1
              /\ last'.client = Undefined
              /\ contexts' = contexts
              /\ contexts'[last'.rec].client = Undefined
              /\ made' = made
              /\ tasks' = tasks
        /\ (last'.rec # 0 /\ scopes[last'.rec].factoryThrows > 0
                /\ ~Truthy(contexts[last'.rec].client)) =>
              /\ last'.invoked = 1
              /\ last'.kind \in {"FactoryFailure", "delegated"}
              /\ last'.kind = "delegated" =>
                    /\ contexts'[last'.rec].client = last'.client
                    /\ Truthy(last'.client)

FactoryFailureRetried == [][FactoryFailureStep]_vars

\* After a factory failure in a scope, a later query of that scope invoked the
\* factory again and was delegated to the client now cached in the record.
FactoryFailureWitness ==
    /\ last.kind = "delegated"
    /\ last.invoked = 1
    /\ last.rec # 0
    /\ scopes[last.rec].factoryThrows >= 1
    /\ scopes[last.rec].factoryCalls = scopes[last.rec].factoryThrows + 1
    /\ contexts[last.rec].client = last.client

\* C5 Nested run(): a query from the callback of a run() called inside another
\* scope resolves to the inner record; a query of a callback that has called
\* no run() yet, or whose latest run() has settled, resolves to the callback's
\* own (outer) record.
NestedScopes ==
    (Issued /\ tasks[last.task].runOf # 0) =>
        LET r == tasks[last.task].runOf
        IN  /\ Own(scopes[r].by) # 0 => (last.rec = r /\ last.rec # Own(scopes[r].by))
            /\ last.inner \in {"none", "settled"} => last.rec = r

\* The outer callback awaited an inner run(), the inner run() settled, and the
\* outer callback's next query was delegated to the outer record's client.
NestedScopesWitness ==
    /\ last.kind = "delegated"
    /\ last.inner = "settled"
    /\ tasks[last.task].runOf = last.rec
    /\ \E r \in ScopeIds :
          /\ scopes[r].by = last.task
          /\ scopes[r].queries >= 1
          /\ last.client = contexts[last.rec].client
          /\ last.client # contexts[r].client

\* C6 as stated: once the promise of run() has settled, no query issued by any
\* execution resolves to the record of that run().
NoQueryAfterSettle ==
    ~(Issued /\ last.rec # 0 /\ last.late)

\* C6 as amended: a query issued after the promise of run() has settled
\* resolves to that run()'s record only when an execution the callback started
\* issues it; the caller of run() and every other execution never do.
LateQueryOnlyInside ==
    (Issued /\ last.late) =>
        /\ Own(last.task) = last.rec
        /\ last.task # scopes[last.rec].by
        /\ Own(scopes[last.rec].by) # last.rec

\* A branch the callback started and did not wait for queried after run()
\* had settled and was delegated to the record's client, while the caller of
\* run(), resumed, queried before and did not reach the record.
LateQueryWitness ==
    /\ last.kind = "delegated"
    /\ last.late
    /\ tasks[last.task].parent = scopes[last.rec].cb
    /\ tasks[scopes[last.rec].cb].status = "done"
    /\ tasks[scopes[last.rec].by].status = "running"
    /\ nq >= 2

\* C7 Outcome of run(): the promise of run() settles only after the callback
\* has, and with the callback's outcome: the same value, or the same failure.
RunOutcomeIsCallbacks ==
    \A r \in ScopeIds :
        /\ scopes[r].state = "settled" =>
              /\ scopes[r].cbOutcome \in Outcomes
              /\ scopes[r].runOutcome = scopes[r].cbOutcome
        /\ scopes[r].state # "settled" => scopes[r].runOutcome = Pending

\* One run() has settled with its callback's failure and another with its
\* callback's value.
RunOutcomeWitness ==
    \E r, q \in ScopeIds :
        /\ scopes[r].state = "settled" /\ scopes[r].runOutcome.state = "rejected"
        /\ scopes[q].state = "settled" /\ scopes[q].runOutcome.state = "resolved"

\* C8 Descriptor or client: a scope built from descriptor d behaves as the
\* scope built from a client the caller constructed from d: its record has the
\* same shape, its queries are delegated in the same way to a client connected
\* to d, and they return the same results and failures; the client differs
\* only in who constructed it.
DescriptorAsClient ==
    \A r \in ScopeIds :
        scopes[r].input.kind = "string" =>
            LET twin == Normalize(CallerClient(scopes[r].input.conn), 0)
                mine == contexts[r]
            IN  /\ mine.factory = twin.factory
                /\ [mine.client EXCEPT !.owner = "caller", !.n = 0] = twin.client
                /\ (Issued /\ last.rec = r) =>
                      /\ last.kind = "delegated"
                      /\ last.invoked = 0
                      /\ last.client = mine.client
                /\ (last.kind = "returned" /\ last.rec = r) =>
                      last.result = DbResult(twin.client, last.text, ~last.result.ok)

\* A query of a scope built from a descriptor has returned the database's
\* answer, and a query of a scope built from the caller's client for the same
\* descriptor is in flight.
DescriptorAsClientWitness ==
    /\ last.kind = "returned"
    /\ last.rec # 0
    /\ scopes[last.rec].input.kind = "string"
    /\ last.result.ok
    /\ \E q \in ScopeIds :
          /\ scopes[q].input = CallerClient(scopes[last.rec].input.conn)
          /\ tasks[scopes[q].cb].status = "awaitQuery"
          /\ tasks[scopes[q].cb].pclient.conn = last.result.conn

\* C9 Normalisation: the record run() builds has, for a string, a new pooled
\* client made from it and no factory; for a function, that function as
\* factory and no client; for anything else, that value as client and no
\* factory.
NormalizeStep ==
    Len(contexts') = Len(contexts) + 1 =>
        LET ctx == contexts'[Len(contexts')]
            input == scopes'[Len(contexts')].input
        IN  /\ input.kind = "string" =>
                  /\ ctx.client = [kind |-> "client", conn |-> input.conn,
                                   owner |-> "run", n |-> made + 1]
                  /\ made' = made + 1
                  /\ \A r \in ScopeIds : contexts[r].client # ctx.client
                  /\ ctx.factory = Undefined
            /\ input.kind = "function" =>
                  /\ ctx.factory = input
                  /\ ctx.client = Undefined
                  /\ made' = made
            /\ input.kind \notin {"string", "function"} =>
                  /\ ctx.client = input
                  /\ ctx.factory = Undefined
                  /\ made' = made

NormalizedByFirstMatch == [][NormalizeStep]_vars

\* Two records exist that no query has touched: one built from a string, one
\* built from a function.
NormalizeWitness ==
    \E r, q \in ScopeIds :
        /\ scopes[r].input.kind = "string" /\ scopes[r].queries = 0
        /\ contexts[r].client.owner = "run"
        /\ scopes[q].input.kind = "function" /\ scopes[q].queries = 0
        /\ contexts[q].factory = scopes[q].input

\* Number of factory calls that returned a client, over the scopes 1..k.
RECURSIVE FactoryClients(_)
FactoryClients(k) ==
    IF k = 0 THEN 0
    ELSE FactoryClients(k - 1) + scopes[k].factoryCalls - scopes[k].factoryThrows

\* C10 Laziness: the factory given to run() is invoked by queries of that
\* scope only; while no query has been issued in the scope the factory has
\* not been invoked and the record holds no client, also once the callback
\* and run() have settled; clients are made by string inputs and by factory
\* calls in queries only.
FactoryIsLazy ==
    /\ \A r \in ScopeIds :
          scopes[r].input.kind = "function" =>
              /\ scopes[r].factoryCalls <= scopes[r].queries
              /\ scopes[r].queries = 0 =>
                    /\ scopes[r].factoryCalls = 0
                    /\ contexts[r].client = Undefined
    /\ made = Cardinality({r \in ScopeIds : scopes[r].input.kind = "string"})
                + FactoryClients(Len(scopes))

\* A run() given a factory has settled without any query in its scope: the
\* factory was not invoked and no client was made.
FactoryIsLazyWitness ==
    \E r \in ScopeIds :
        /\ scopes[r].input.kind = "function"
        /\ scopes[r].state = "settled"
        /\ scopes[r].queries = 0
        /\ scopes[r].factoryCalls = 0
        /\ made = 0
        /\ nq >= 1

\* The record a query has just read was built by run() from one of the inputs
\* run() declares: a string, a function or a client.
ReadDeclared ==
    /\ Issued
    /\ last.rec # 0
    /\ scopes[last.rec].input.kind # "undefined"

\* C11 as stated: whenever a query reads a record, exactly one holds of it:
\* its client is present, or its factory is present; also once the client has
\* been made from the factory.
ExactlyOneOfClientFactory ==
    ReadDeclared =>
        Truthy(contexts[last.rec].client) # Truthy(contexts[last.rec].factory)

\* C11 as amended: whenever a query reads such a record, its client or its
\* factory is present; both are present from the query on that made the client
\* from the factory, because the factory stays in the record, and in no other
\* record.
ClientOrFactory ==
    ReadDeclared =>
        LET ctx == contexts[last.rec]
            sc  == scopes[last.rec]
        IN  /\ Truthy(ctx.client) \/ Truthy(ctx.factory)
            /\ (Truthy(ctx.client) /\ Truthy(ctx.factory))
                   <=> (sc.input.kind = "function" /\ sc.factoryCalls > sc.factoryThrows)
            /\ sc.input.kind = "function" => ctx.factory = sc.input

\* A query has read a record that holds the factory and the client an earlier
\* query made from it.
ClientOrFactoryWitness ==
    /\ last.kind = "delegated"
    /\ last.invoked = 0
    /\ last.rec # 0
    /\ scopes[last.rec].queries >= 2
    /\ Truthy(contexts[last.rec].client)
    /\ Truthy(contexts[last.rec].factory)

\* C12 Write once: a record changes only in a query that reads it, finds its
\* client absent and its factory present, and stores the client the factory
\* returned; the factory field never changes; so a client, once present, is
\* never written again and a record built from a string or a client is never
\* written.
WriteOnceStep ==
    /\ Len(contexts') >= Len(contexts)
    /\ \A r \in ScopeIds :
          contexts'[r] # contexts[r] =>
              /\ nq' = nq + 1
              /\ last'.rec = r
              /\ last'.invoked = 1
              /\ scopes[r].input.kind = "function"
              /\ ~Truthy(contexts[r].client)
              /\ Truthy(contexts[r].factory)
              /\ contexts'[r].factory = contexts[r].factory
              /\ Truthy(contexts'[r].client)
              /\ contexts'[r].client = last'.client

ClientWrittenOnce == [][WriteOnceStep]_vars

\* A record built from a function was queried twice and written once, and a
\* record built from a string was queried and still holds the pool run() made.
ClientWrittenOnceWitness ==
    \E r, q \in ScopeIds :
        /\ scopes[r].input.kind = "function"
        /\ scopes[r].queries >= 2
        /\ scopes[r].factoryCalls = 1
        /\ Truthy(contexts[r].client)
        /\ scopes[q].input.kind = "string"
        /\ scopes[q].queries >= 1
        /\ contexts[q] = ContextOfPool(NewPool(scopes[q].input.conn, scopes[q].madeAtRun + 1))

\* C13 Frame of a query: a query reads the innermost record of its own chain
\* and nothing else; the records of enclosing scopes and of sibling scopes are
\* left as they are, and their factories are not invoked, also when the query
\* makes a client from its own record's factory.
QueryFrameStep ==
    nq' # nq =>
        LET own == Own(last'.task)
        IN  /\ last'.rec = own
            /\ \A r \in ScopeIds :
                  r # own => /\ contexts'[r] = contexts[r]
                             /\ scopes'[r] = scopes[r]

QueryTouchesOwnRecordOnly == [][QueryFrameStep]_vars

\* A query of an inner run() made a client from the inner factory while the
\* enclosing scope, built from a factory too, still has no client and its
\* factory has not been invoked.
QueryFrameWitness ==
    /\ last.kind = "delegated"
    /\ last.invoked = 1
    /\ last.rec # 0
    /\ contexts[last.rec].client = last.client
    /\ LET outer == Own(scopes[last.rec].by)
       IN  /\ outer # 0
           /\ scopes[outer].input.kind = "function"
           /\ scopes[outer].state = "active"
           /\ scopes[outer].factoryCalls = 0
           /\ contexts[outer].client = Undefined

\* C14 Scope survives suspension: an execution keeps its store over every
\* await, whatever runs in between; a query it issues inside a scope after it
\* has resumed does not fail with ContextMissing, reads the same record as
\* before, and is served by the client cached in it, if there is one.
SuspensionStep ==
    /\ \A t \in Tasks :
          tasks[t].status # "free" => tasks'[t].store = tasks[t].store
    /\ (nq' # nq /\ Own(last'.task) # 0) =>
          LET own == Own(last'.task)
          IN  /\ last'.kind # "ContextMissing"
              /\ last'.rec = own
              /\ Truthy(contexts[own].client) =>
                    /\ last'.kind = "delegated"
                    /\ last'.invoked = 0
                    /\ last'.client = contexts[own].client

ScopeSurvivesSuspension == [][SuspensionStep]_vars

\* A callback made its client in a first query and waited for the answer; then
\* a sibling run() started and its callback queried; then the first callback,
\* resumed, queried again and was served by the client it had cached.
SuspensionWitness ==
    /\ last.kind = "delegated"
    /\ last.invoked = 0
    /\ last.rec # 0
    /\ last.task = scopes[last.rec].cb
    /\ scopes[last.rec].input.kind = "function"
    /\ scopes[last.rec].queries = 2
    /\ \A t \in Tasks : t # last.task => tasks[t].store # last.rec
    /\ \E q \in ScopeIds :
          /\ q # last.rec
          /\ scopes[q].by = scopes[last.rec].by
          /\ scopes[q].madeAtRun >= last.client.n
          /\ scopes[q].queries = 1

\* C15 Pass-through: a proxy query that resolved a client makes one call of
\* that client's query with the text and values it was given, and waits for
\* it; what the caller gets is that call's answer, result or failure, as the
\* client gave it; the answer changes no record and starts no second call.
PassThroughStep ==
    /\ (nq' # nq /\ last'.kind = "delegated") =>
          LET t == last'.task
          IN  /\ tasks[t].status = "running"
              /\ tasks'[t].status = "awaitQuery"
              /\ tasks'[t].pclient = contexts'[last'.rec].client
              /\ tasks'[t].pclient = last'.client
              /\ tasks'[t].ptext = last'.text
              /\ last'.text \in Texts
              /\ \A u \in Tasks : u # t => tasks'[u] = tasks[u]
    /\ \A t \in Tasks :
          (tasks[t].status = "awaitQuery" /\ tasks'[t].status # "awaitQuery") =>
              /\ last'.kind = "returned"
              /\ last'.task = t
              /\ last'.answer.conn = tasks[t].pclient.conn
              /\ last'.answer.text = tasks[t].ptext
              /\ last'.result = last'.answer
              /\ tasks'[t].status = "running"
              /\ tasks'[t].pclient = Undefined
              /\ UNCHANGED <<contexts, scopes, made, nq>>

PassThroughDelegation == [][PassThroughStep]_vars

\* The client of a scope failed a query: the caller got that failure, and the
\* record still holds the same client.
PassThroughWitness ==
    /\ last.kind = "returned"
    /\ ~last.answer.ok
    /\ ~last.result.ok
    /\ last.result.text \in Texts
    /\ last.rec # 0
    /\ contexts[last.rec].client = last.client
    /\ scopes[last.rec].queries = 1
    /\ tasks[last.task].status = "running"

\* C16 Empty record: a query that reads a record with neither client nor
\* factory fails with the internal-invariant error, not with ContextMissing,
\* and is handed to no client; such a record stays empty, so every later
\* query of that scope fails in the same way.
EmptyRecordFails ==
    /\ \A r \in ScopeIds :
          scopes[r].input.kind = "undefined" =>
              /\ ~Truthy(contexts[r].client)
              /\ ~Truthy(contexts[r].factory)
              /\ scopes[r].factoryCalls = 0
    /\ (/\ Issued
        /\ last.rec # 0
        /\ ~Truthy(contexts[last.rec].client)
        /\ ~Truthy(contexts[last.rec].factory)) =>
          /\ last.kind = "InvariantViolation"
          /\ last.client = Undefined
          /\ last.invoked = 0
          /\ tasks[last.task].status # "awaitQuery"
          /\ tasks[last.task].pclient = Undefined

\* The second query of a scope whose record is empty has failed with the
\* internal-invariant error.
EmptyRecordWitness ==
    /\ last.kind = "InvariantViolation"
    /\ last.rec # 0
    /\ scopes[last.rec].queries >= 2
    /\ contexts[last.rec] = ContextOfClient(Undefined)

\* C17 as stated: of two run() calls given the same factory, each scope that
\* has been queried has invoked the factory once, and no query of one scope is
\* handed to the client cached in the other.
FactoryOncePerScope ==
    \A r, q \in ScopeIds :
        (r # q /\ scopes[r].input.kind = "function"
               /\ scopes[q].input = scopes[r].input
               /\ scopes[r].queries >= 1 /\ scopes[q].queries >= 1) =>
            /\ scopes[r].factoryCalls = 1
            /\ (last.kind = "delegated" /\ last.rec = r)
                   => last.client # contexts[q].client

\* C17 as amended: of two run() calls given the same factory, each scope that
\* has been queried and in which the factory has not failed has invoked it
\* once; each record holds the client its own invocation returned, a record no
\* query has read holds none, and no query of one scope is handed to the
\* client cached in the other.
MemoPerScope ==
    \A r, q \in ScopeIds :
        (r # q /\ scopes[r].input.kind = "function"
               /\ scopes[q].input = scopes[r].input) =>
            /\ (scopes[r].factoryThrows = 0 /\ scopes[r].queries >= 1)
                   => scopes[r].factoryCalls = 1
            /\ scopes[r].queries = 0 => contexts[r].client = Undefined
            /\ Truthy(contexts[r].client) => contexts[r].client # contexts[q].client
            /\ (last.kind = "delegated" /\ last.rec = r)
                   => last.client # contexts[q].client

\* Two scopes given the same factory, one nested in the other, have both been
\* queried: the factory was invoked once in each and the two records hold
\* different clients.
MemoPerScopeWitness ==
    \E r, q \in ScopeIds :
        /\ r # q
        /\ scopes[r].input.kind = "function"
        /\ scopes[q].input = scopes[r].input
        /\ Own(scopes[q].by) = r
        /\ scopes[r].factoryCalls = 1 /\ scopes[r].factoryThrows = 0
        /\ scopes[q].factoryCalls = 1 /\ scopes[q].factoryThrows = 0
        /\ Truthy(contexts[r].client)
        /\ Truthy(contexts[q].client)
        /\ contexts[r].client # contexts[q].client
        /\ last.kind = "delegated"

\* The scopes built from a connection string.
StringScopes == {r \in ScopeIds : scopes[r].input.kind = "string"}

\* C18 One pool per run(): a run() given a string has made one new pool when
\* its callback starts, whether or not a query follows; the record holds that
\* pool from then on, and no other record holds it, not even the record of a
\* run() given the same string.
OnePoolPerRun ==
    /\ \A r \in StringScopes :
          /\ contexts[r].client = NewPool(scopes[r].input.conn, scopes[r].madeAtRun + 1)
          /\ contexts[r].client.n <= made
          /\ scopes[r].factoryCalls = 0
          /\ \A q \in ScopeIds : q # r => contexts[q].client # contexts[r].client
    /\ Cardinality({contexts[r].client : r \in StringScopes}) = Cardinality(StringScopes)
    /\ made - FactoryClients(Len(scopes)) = Cardinality(StringScopes)

\* Two run() calls given the same string are active, no query has been issued,
\* and each record holds a pool of its own.
OnePoolPerRunWitness ==
    \E r, q \in StringScopes :
        /\ r # q
        /\ scopes[r].input = scopes[q].input
        /\ scopes[r].state = "active" /\ scopes[q].state = "active"
        /\ nq = 0
        /\ made = 2
        /\ contexts[r].client # contexts[q].client
        /\ contexts[r].client.conn = contexts[q].client.conn

====
